---- MODULE Spec2Model ----
(***************************************************************************)
(* A model of the content syndication service of synccinct/syndictor.      *)
(*                                                                         *)
(* Five layers, each with a specification of its own:                      *)
(*   Spec         the dashboard of src/app.js: mockData and the handlers   *)
(*                that read and change it;                                 *)
(*   SpecPubSub   the Pub/Sub subscriptions and Cloud Run services that    *)
(*                src/unnamed/part_000 declares (retry policy, ack         *)
(*                deadline, retention, dead-letter policy, timeouts);      *)
(*   SpecPipeline the pipeline coordinator (lifecycle, router, platform    *)
(*                connection manager, restart recovery), whose code is     *)
(*                not among the source files and is modelled from spec.md; *)
(*   SpecQueue    the consumers of the ingestion queue and the shutdown    *)
(*                signal, modelled from spec.md as well;                   *)
(*   SpecPage     the page of src/app.js around the data: modals,          *)
(*                notifications and the content filter.                    *)
(***************************************************************************)
EXTENDS Integers, Sequences, FiniteSets, TLC

VARIABLES
  \* ---- dashboard: src/app.js ----
  contentSources,        \* mockData.contentSources: id -> [name, type, status, articles]
  recentActivity,        \* mockData.recentActivity: newest first
  contentLibrary,        \* mockData.contentLibrary: id -> [source, status, platforms]
  distributionPlatforms, \* mockData.distributionPlatforms: name -> [status, posts]
  monetization,          \* mockData.monetization
  currentSection,        \* let currentSection
  clock,                 \* wall clock read by new Date(), minutes of the day
  clockAdvances,         \* how often the wall clock has moved
  refreshes,             \* calls of updateRecentActivity so far
  chartRenders,          \* what initializeMonetizationChart handed to the chart, per call
  lastToggle,            \* the last call of toggleSource: its argument and what it produced
  visibleItems,          \* the content items filterContent leaves displayed
  activeSections,        \* ids of the content sections carrying class "active"
  activeLinks,           \* data-section of the nav links carrying class "active"
  contentSearch,         \* value of the search box #contentSearch (characters)
  statusFilter,          \* value of the select #statusFilter
  \* ---- messaging: src/unnamed/part_000 ----
  psNow,                 \* seconds since the first publish
  mode,                  \* how the collaborator behind the handler behaves
  msg,                   \* message -> its state in the subscription
  handlers,              \* message -> start times of the deliveries still being handled
  invocations,           \* message -> collaborator calls made for it
  delays,                \* message -> the backoff delays applied to it, in order
  handled,               \* message -> deliveries handled successfully
  deadLetters,           \* message -> forwards to the dead-letter topic
  \* ---- pipeline coordinator: spec.md ----
  itemState,             \* item -> lifecycle state ("none" before ingestion)
  prevState,             \* item -> the lifecycle state it held before the current one
  everEnhanced,          \* item -> whether it has been in state enhanced
  enhanceFailures,       \* item -> failed enhancement attempts
  manualRetries,         \* manual retries used
  enhQueue,              \* ingestion queue: items awaiting (re-)enhancement
  attempts,              \* <<item, platform>> -> PublishAttempt
  dispatchQueue,         \* <<item, platform>> pairs awaiting dispatch
  conn,                  \* platform -> PlatformConnection
  publisherCalls,        \* platform -> Publisher invocations
  events,                \* error events emitted (set of <<kind, item, platform>>)
  pNow,                  \* coordinator clock, ticks
  restarts,              \* restarts so far
  \* ---- queue consumers: spec.md ----
  workQueue,             \* the ingestion queue, oldest first
  consumer,              \* consumer -> "blocked" (in dequeue), "working", "terminated"
  dequeueReport,         \* consumer -> what its last dequeue() reported
  shuttingDown,          \* the global shutdown signal
  produced,              \* items enqueued so far
  consumed,              \* items the consumers have finished
  \* ---- page: src/app.js ----
  activeModals,          \* ids of the modals carrying class "active"
  bodyOverflow,          \* document.body.style.overflow
  notifications,         \* notification -> [phase, attached, removals]
  domErrors              \* removeChild calls on a node that was not attached

dashVars == <<contentSources, recentActivity, contentLibrary, distributionPlatforms,
              monetization, currentSection, clock, clockAdvances, refreshes,
              chartRenders, lastToggle, visibleItems, activeSections,
              activeLinks, contentSearch, statusFilter>>
psVars == <<psNow, mode, msg, handlers, invocations, delays, handled, deadLetters>>
pipeVars == <<itemState, prevState, everEnhanced, enhanceFailures, manualRetries,
              enhQueue, attempts, dispatchQueue, conn, publisherCalls, events, pNow,
              restarts>>
qVars == <<workQueue, consumer, dequeueReport, shuttingDown, produced, consumed>>
pageVars == <<activeModals, bodyOverflow, notifications, domErrors>>
vars == <<dashVars, psVars, pipeVars, qVars, pageVars>>

\* A step of one layer leaves the others alone.
OnlyDash == UNCHANGED <<psVars, pipeVars, qVars, pageVars>>
OnlyPs == UNCHANGED <<dashVars, pipeVars, qVars, pageVars>>
OnlyPipe == UNCHANGED <<dashVars, psVars, qVars, pageVars>>
OnlyQueue == UNCHANGED <<dashVars, psVars, pipeVars, pageVars>>
OnlyPage == UNCHANGED <<dashVars, psVars, pipeVars, qVars>>

Min(a, b) == IF a <= b THEN a ELSE b
Max(a, b) == IF a >= b THEN a ELSE b

(***************************************************************************)
(* Bounds of the model.                                                    *)
(***************************************************************************)
MaxRefreshes == 1
MaxClockAdvances == 1
MaxRenders == 2

(***************************************************************************)
(* DASHBOARD (src/app.js)                                                  *)
(***************************************************************************)
SourceIds == {1, 2, 3}
\* toggleSource is reachable with any number: the ids of the table and one that
\* no source carries.
SourceIdInputs == SourceIds \cup {4}

InitContentSources ==
  [id \in SourceIds |->
     CASE id = 1 -> [name |-> "FDA Medical Device Updates", type |-> "RSS",
                     status |-> "active", articles |-> 42]
       [] id = 2 -> [name |-> "Maritime Hydrogen News", type |-> "HTML",
                     status |-> "active", articles |-> 18]
       [] id = 3 -> [name |-> "Neurotech Patents", type |-> "API",
                     status |-> "paused", articles |-> 7]]

\* "HH:MM" as minutes of the day.
HHMM(h, m) == h * 60 + m
MinutesPerDay == 1440

InitRecentActivity ==
  << [time |-> HHMM(14, 30), type |-> "success",
      action |-> "Scraped 5 new articles from FDA Medical Device Updates"],
     [time |-> HHMM(14, 25), type |-> "info",
      action |-> "AI processed 3 articles, enhanced content generated"],
     [time |-> HHMM(14, 20), type |-> "success",
      action |-> "Published to LinkedIn - 'New FDA Approval for Dental Implants'"],
     [time |-> HHMM(14, 15), type |-> "warning",
      action |-> "Twitter rate limit exceeded, retrying in 15 minutes"],
     [time |-> HHMM(14, 10), type |-> "info",
      action |-> "Generated affiliate links for 2 SaaS recommendations"] >>

LibraryIds == {1, 2}
\* Texts are sequences of characters; of a title and a summary the model keeps
\* one word ("FDA" and "cost" of item 1, "Fuel" and "new" of item 2).
InitContentLibrary ==
  [id \in LibraryIds |->
     IF id = 1
       THEN [source |-> "FDA Medical Device Updates", status |-> "enhanced",
             platforms |-> <<"LinkedIn", "Twitter">>,
             title |-> <<"F", "D", "A">>, summary |-> <<"c", "o", "s", "t">>]
       ELSE [source |-> "Maritime Hydrogen News", status |-> "processing",
             platforms |-> << >>,
             title |-> <<"F", "u", "e", "l">>, summary |-> <<"n", "e", "w">>]]

PlatformNames == {"LinkedIn", "Twitter", "Medium", "Substack"}
InitDistributionPlatforms ==
  [p \in PlatformNames |->
     CASE p = "LinkedIn" -> [status |-> "connected", posts |-> 89]
       [] p = "Twitter" -> [status |-> "rate_limited", posts |-> 156]
       [] p = "Medium" -> [status |-> "connected", posts |-> 23]
       [] p = "Substack" -> [status |-> "disconnected", posts |-> 0]]

InitMonetization ==
  [subscriptions |-> [basic |-> 67, pro |-> 23, enterprise |-> 4],
   affiliateRevenue |-> 1580, sponsoredPosts |-> 3, totalRevenue |-> 2340]

\* The nav links' data-section values, and an id no section carries.
SectionIds == {"dashboard", "sources", "monetization"}
NavTargets == SectionIds \cup {"nosuch"}

\* const activities = [...] in updateRecentActivity.
activities ==
  << "New article scraped from Maritime Hydrogen News",
     "AI content enhancement completed",
     "Published to LinkedIn successfully",
     "Affiliate link generated for SaaS tool",
     "Twitter post scheduled for publication" >>
\* Math.random() > 0.7 ? 'warning' : Math.random() > 0.5 ? 'info' : 'success'
ActivityTypes == {"warning", "info", "success"}
KeepRecent == 5

\* The source a scrape activity names, if it names one.
ScrapedSourceOf(action) ==
  IF action = "New article scraped from Maritime Hydrogen News" THEN 2 ELSE 0

ClockSteps == {1, 565}

DashInit ==
  /\ contentSources = InitContentSources
  /\ recentActivity = InitRecentActivity
  /\ contentLibrary = InitContentLibrary
  /\ distributionPlatforms = InitDistributionPlatforms
  /\ monetization = InitMonetization
  /\ currentSection = "dashboard"
  /\ clock = HHMM(14, 35)
  /\ clockAdvances = 0
  /\ refreshes = 0
  /\ chartRenders = << >>
  /\ lastToggle = [id |-> 0, outcome |-> "none"]
  /\ visibleItems = LibraryIds
  /\ activeSections = {"dashboard"}
  /\ activeLinks = {"dashboard"}
  /\ contentSearch = << >>
  /\ statusFilter = ""

\* toggleSource with a defect: a source that is not active is left as it is.
ToggledPausesOnly(sources, sourceId) ==
  IF sourceId \in DOMAIN sources
    THEN [sources EXCEPT ![sourceId].status =
            IF @ = "active" THEN "paused" ELSE @]
    ELSE sources

\* toggleSource, lines 405-407: the array after
\* find(s => s.id === sourceId) and the flip of the status of the source found.
Toggled(sources, sourceId) ==
  IF sourceId \in DOMAIN sources
    THEN [sources EXCEPT ![sourceId].status =
            IF @ = "active" THEN "paused" ELSE "active"]
    ELSE sources

\* function loadContentSources(): one table row per source, in array order.
loadContentSources ==
  [k \in 1..Len(contentSources) |->
     [name |-> contentSources[k].name, type |-> contentSources[k].type,
      status |-> contentSources[k].status, articles |-> contentSources[k].articles]]

\* toggleSource with a defect: the toggled source is taken out of the array and
\* pushed back at its end.
toggleSourceMovesToEnd(sourceId) ==
  /\ IF sourceId \in DOMAIN contentSources
       THEN contentSources' =
              [k \in DOMAIN contentSources |->
                 IF k < sourceId THEN contentSources[k]
                 ELSE IF k < Len(contentSources) THEN contentSources[k + 1]
                 ELSE [contentSources[sourceId] EXCEPT !.status =
                         IF @ = "active" THEN "paused" ELSE "active"]]
       ELSE UNCHANGED contentSources
  /\ lastToggle' = [id |-> sourceId, outcome |-> "undefined"]
  /\ UNCHANGED <<recentActivity, contentLibrary, distributionPlatforms, monetization,
                 currentSection, clock, clockAdvances, refreshes, chartRenders,
                 visibleItems,
                 activeSections, activeLinks, contentSearch, statusFilter>>
  /\ OnlyDash

\* toggleSource with a defect: resuming a source starts its article count anew.
toggleSourceResetsCount(sourceId) ==
  /\ IF sourceId \in DOMAIN contentSources
       THEN contentSources' =
              [contentSources EXCEPT ![sourceId] =
                 IF @.status = "active"
                   THEN [@ EXCEPT !.status = "paused"]
                   ELSE [@ EXCEPT !.status = "active", !.articles = 0]]
       ELSE UNCHANGED contentSources
  /\ lastToggle' = [id |-> sourceId, outcome |-> "undefined"]
  /\ UNCHANGED <<recentActivity, contentLibrary, distributionPlatforms, monetization,
                 currentSection, clock, clockAdvances, refreshes, chartRenders,
                 visibleItems,
                 activeSections, activeLinks, contentSearch, statusFilter>>
  /\ OnlyDash

\* function toggleSource(sourceId)
toggleSource(sourceId) ==
  /\ contentSources' = Toggled(contentSources, sourceId)
  /\ lastToggle' = [id |-> sourceId, outcome |-> "undefined"]
  /\ UNCHANGED <<recentActivity, contentLibrary, distributionPlatforms, monetization,
                 currentSection, clock, clockAdvances, refreshes, chartRenders,
                 visibleItems,
                 activeSections, activeLinks, contentSearch, statusFilter>>
  /\ OnlyDash

\* function navigateToSection(sectionId): currentSection = sectionId, whatever it is.
navigateToSection(sectionId) ==
  /\ activeSections' = IF sectionId \in SectionIds THEN {sectionId} ELSE {}
  /\ activeLinks' = IF sectionId \in SectionIds THEN {sectionId} ELSE {}
  /\ currentSection' = sectionId
  /\ UNCHANGED <<contentSources, recentActivity, contentLibrary, distributionPlatforms,
                 monetization, clock, clockAdvances, refreshes, chartRenders,
                 lastToggle, visibleItems, contentSearch, statusFilter>>
  /\ OnlyDash

\* updateRecentActivity with a defect: the simulated activity also books
\* affiliate revenue.
updateRecentActivityBooksRevenue ==
  /\ refreshes < MaxRefreshes
  /\ \E a \in 1..Len(activities), ty \in ActivityTypes :
       /\ recentActivity' =
            SubSeq(<<[time |-> clock, type |-> ty, action |-> activities[a]]>>
                     \o recentActivity,
                   1, Min(KeepRecent, Len(recentActivity) + 1))
       /\ monetization' =
            IF a = 4
              THEN [monetization EXCEPT !.affiliateRevenue = @ + 1,
                                        !.totalRevenue = @ + 1]
              ELSE monetization
  /\ refreshes' = refreshes + 1
  /\ UNCHANGED <<contentSources, contentLibrary, distributionPlatforms,
                 currentSection, clock, clockAdvances, chartRenders,
                 lastToggle, visibleItems,
                 activeSections, activeLinks, contentSearch, statusFilter>>
  /\ OnlyDash

\* updateRecentActivity with a defect: the simulated LinkedIn publication is
\* also counted on the platform.
updateRecentActivityCountsPost ==
  /\ refreshes < MaxRefreshes
  /\ \E a \in 1..Len(activities), ty \in ActivityTypes :
       /\ recentActivity' =
            SubSeq(<<[time |-> clock, type |-> ty, action |-> activities[a]]>>
                     \o recentActivity,
                   1, Min(KeepRecent, Len(recentActivity) + 1))
       /\ distributionPlatforms' =
            IF a = 3
              THEN [distributionPlatforms EXCEPT !["LinkedIn"].posts = @ + 1]
              ELSE distributionPlatforms
  /\ refreshes' = refreshes + 1
  /\ UNCHANGED <<contentSources, contentLibrary, monetization, currentSection, clock,
                 clockAdvances, chartRenders, lastToggle, visibleItems,
                 activeSections, activeLinks, contentSearch, statusFilter>>
  /\ OnlyDash

\* updateRecentActivity with a defect: the entry dropped is the one that was
\* newest before the call, not the oldest.
updateRecentActivityDropsSecond ==
  /\ refreshes < MaxRefreshes
  /\ \E a \in 1..Len(activities), ty \in ActivityTypes :
       recentActivity' =
         <<[time |-> clock, type |-> ty, action |-> activities[a]]>>
           \o SubSeq(recentActivity, 2, Len(recentActivity))
  /\ refreshes' = refreshes + 1
  /\ UNCHANGED <<contentSources, contentLibrary, distributionPlatforms, monetization,
                 currentSection, clock, clockAdvances, chartRenders, lastToggle,
                 visibleItems,
                 activeSections, activeLinks, contentSearch, statusFilter>>
  /\ OnlyDash

\* function updateRecentActivity(): unshift a random activity stamped with the
\* current time, keep the first five.
updateRecentActivity ==
  /\ refreshes < MaxRefreshes
  /\ \E a \in 1..Len(activities), ty \in ActivityTypes :
       recentActivity' =
         SubSeq(<<[time |-> clock, type |-> ty, action |-> activities[a]]>>
                  \o recentActivity,
                1, Min(KeepRecent, Len(recentActivity) + 1))
  /\ refreshes' = refreshes + 1
  /\ UNCHANGED <<contentSources, contentLibrary, distributionPlatforms, monetization,
                 currentSection, clock, clockAdvances, chartRenders,
                 lastToggle, visibleItems,
                 activeSections, activeLinks, contentSearch, statusFilter>>
  /\ OnlyDash

\* function loadRecentActivity(): the feed shows the entries in array order.
loadRecentActivity ==
  [k \in 1..Len(recentActivity) |->
     [time |-> recentActivity[k].time, text |-> recentActivity[k].action,
      class |-> recentActivity[k].type]]

\* The setInterval callback with a defect: it refreshes whatever section is shown.
autoRefreshTickEverywhere ==
  updateRecentActivity

\* The setInterval callback of startAutoRefresh.
autoRefreshTick ==
  IF currentSection = "dashboard"
    THEN updateRecentActivity
    ELSE UNCHANGED vars

SponsoredPostPrice == 500
\* The data array handed to the doughnut chart.
RevenueBreakdown(m) ==
  << m.affiliateRevenue,
     m.totalRevenue - m.affiliateRevenue - (m.sponsoredPosts * SponsoredPostPrice),
     m.sponsoredPosts * SponsoredPostPrice >>
\* loadSubscriptionStats: the three tier counts shown.
SubscriptionStats(m) ==
  << m.subscriptions.basic, m.subscriptions.pro, m.subscriptions.enterprise >>

\* function initializeMonetizationChart() (with loadSubscriptionStats, which it calls).
initializeMonetizationChart ==
  /\ Len(chartRenders) < MaxRenders
  /\ chartRenders' =
       Append(chartRenders,
              [basis |-> monetization,
               data |-> RevenueBreakdown(monetization),
               tiers |-> SubscriptionStats(monetization)])
  /\ UNCHANGED <<contentSources, recentActivity, contentLibrary, distributionPlatforms,
                 monetization, currentSection, clock, clockAdvances, refreshes,
                 lastToggle, visibleItems,
                 activeSections, activeLinks, contentSearch, statusFilter>>
  /\ OnlyDash

\* The options of the status filter of the content library.
StatusFilters == {"", "enhanced", "processing", "draft"}

\* What can be typed into the search box.
SearchTerms ==
  {<< >>, <<"F", "D", "A">>, <<"f", "d", "a">>, <<"N", "e", "w">>, <<"f">>,
   <<"x", "y">>}

\* The characters of a status and of an option value of the status filter.
Chars(word) ==
  CASE word = "enhanced" -> <<"e", "n", "h", "a", "n", "c", "e", "d">>
    [] word = "processing" -> <<"p", "r", "o", "c", "e", "s", "s", "i", "n", "g">>
    [] word = "draft" -> <<"d", "r", "a", "f", "t">>
    [] OTHER -> << >>

\* String.prototype.toLowerCase
LowerOf(c) ==
  CASE c = "A" -> "a"
    [] c = "D" -> "d"
    [] c = "F" -> "f"
    [] c = "N" -> "n"
    [] OTHER -> c
toLowerCase(text) == [i \in DOMAIN text |-> LowerOf(text[i])]

\* String.prototype.includes
includes(text, part) ==
  \E i \in 0..(Len(text) - Len(part)) : SubSeq(text, i + 1, i + Len(part)) = part

\* The items of filterContent with a defect: the search term is compared as
\* typed.
DisplayedAsTyped(searchValue, statusValue) ==
  {id \in LibraryIds :
     LET title == toLowerCase(contentLibrary[id].title)
         summary == toLowerCase(contentLibrary[id].summary)
         status == toLowerCase(Chars(contentLibrary[id].status))
         matchesSearch == includes(title, searchValue) \/ includes(summary, searchValue)
         matchesStatus == \/ statusValue = ""
                          \/ includes(status, toLowerCase(Chars(statusValue)))
     IN matchesSearch /\ matchesStatus}

\* The items filterContent gives display 'block'; the others get 'none'.
Displayed(searchValue, statusValue) ==
  {id \in LibraryIds :
     LET searchTerm == toLowerCase(searchValue)
         title == toLowerCase(contentLibrary[id].title)
         summary == toLowerCase(contentLibrary[id].summary)
         status == toLowerCase(Chars(contentLibrary[id].status))
         matchesSearch == includes(title, searchTerm) \/ includes(summary, searchTerm)
         matchesStatus == \/ statusValue = ""
                          \/ includes(status, toLowerCase(Chars(statusValue)))
     IN matchesSearch /\ matchesStatus}

\* function filterContent(), run by the input event of the search box and
\* the change event of the status filter, with the values the two then hold.
filterContent(searchValue, statusValue) ==
  /\ contentSearch' = searchValue
  /\ statusFilter' = statusValue
  /\ visibleItems' = Displayed(searchValue, statusValue)
  /\ UNCHANGED <<contentSources, recentActivity, contentLibrary, distributionPlatforms,
                 monetization, currentSection, clock, clockAdvances, refreshes,
                 chartRenders, lastToggle,
                 activeSections, activeLinks>>
  /\ OnlyDash

\* Time passes between two events of the page.
AdvanceClock ==
  /\ clockAdvances < MaxClockAdvances
  /\ \E d \in ClockSteps : clock' = (clock + d) % MinutesPerDay
  /\ clockAdvances' = clockAdvances + 1
  /\ UNCHANGED <<contentSources, recentActivity, contentLibrary, distributionPlatforms,
                 monetization, currentSection, refreshes, chartRenders,
                 lastToggle, visibleItems,
                 activeSections, activeLinks, contentSearch, statusFilter>>
  /\ OnlyDash

DashNext ==
  \/ \E id \in SourceIdInputs : toggleSource(id)
  \/ \E s \in NavTargets : navigateToSection(s)
  \/ autoRefreshTick
  \/ initializeMonetizationChart
  \/ \E f \in StatusFilters : filterContent(<< >>, f)
  \/ AdvanceClock

(***************************************************************************)
(* MESSAGING (src/unnamed/part_000)                                        *)
(* The two subscriptions, content-processing-subscription and              *)
(* content-distribution-subscription, carry the same settings; the model   *)
(* is one subscription with these settings, consumed by a Cloud Run        *)
(* service (content-processor, content-distributor) whose requests may run *)
(* for timeout_seconds.  A message stands for one unit of work: an item to *)
(* enhance, or one (item, platform) publish attempt.                       *)
(***************************************************************************)
NumMsgs == 1
MaxInstances == 2
MaxClock == 1300

MessageRetentionSeconds == 1200
AckDeadlineSeconds == 300
MinimumBackoff == 10
MaximumBackoff == 600
MaxDeliveryAttempts == 10
TimeoutSeconds == 900

Msgs == 1..NumMsgs
\* fail2ok: the collaborator fails its first two calls and then succeeds;
\* alwaysFail: it fails every call (both answer at once);
\* free: any outcome, after any time up to the request timeout.
Modes == {"fail2ok", "alwaysFail", "free"}

NoMsg == [st |-> "unpublished", publishedAt |-> 0, availableAt |-> 0,
          deliveredAt |-> 0, attempts |-> 0]

\* retry_policy with a defect: the same delay before every redelivery.
BackoffConstant(prev) == {MinimumBackoff}

\* retry_policy { minimum_backoff, maximum_backoff }: the first redelivery
\* waits the minimum; each further one waits longer than the one before (prev),
\* up to the maximum.  By how much the delay grows is the service's choice:
\* by the minimum again, or to the double.
Backoff(prev) ==
  IF prev = 0 THEN {MinimumBackoff}
  ELSE {Min(MaximumBackoff, prev + MinimumBackoff), Min(MaximumBackoff, 2 * prev)}

PsInitIn(modes) ==
  /\ psNow = 0
  /\ mode \in modes
  /\ msg = [m \in Msgs |-> NoMsg]
  /\ handlers = [m \in Msgs |-> {}]
  /\ invocations = [m \in Msgs |-> 0]
  /\ delays = [m \in Msgs |-> << >>]
  /\ handled = [m \in Msgs |-> 0]
  /\ deadLetters = [m \in Msgs |-> 0]

\* A publisher puts the message on the topic; the subscription holds it.
Publish(m) ==
  /\ msg[m].st = "unpublished"
  /\ msg' = [msg EXCEPT ![m] = [st |-> "backlog", publishedAt |-> psNow,
                                availableAt |-> psNow, deliveredAt |-> 0,
                                attempts |-> 0]]
  /\ UNCHANGED <<psNow, mode, handlers, invocations, delays, handled, deadLetters>>
  /\ OnlyPs

\* The subscription hands the message to the service, which starts handling it
\* on a free instance and calls its collaborator.  A message already delivered
\* max_delivery_attempts times goes to the dead-letter topic instead, which is
\* the topic this subscription is attached to: it comes back as a new message.
Deliver(m) ==
  /\ msg[m].st = "backlog"
  /\ psNow >= msg[m].availableAt
  /\ IF msg[m].attempts >= MaxDeliveryAttempts
       THEN /\ msg' = [msg EXCEPT ![m] = [st |-> "backlog", publishedAt |-> psNow,
                                          availableAt |-> psNow, deliveredAt |-> 0,
                                          attempts |-> 0]]
            /\ deadLetters' = [deadLetters EXCEPT ![m] = @ + 1]
            /\ UNCHANGED <<handlers, invocations>>
       ELSE /\ Cardinality(handlers[m]) < MaxInstances
            /\ psNow \notin handlers[m]
            /\ msg' = [msg EXCEPT ![m].st = "outstanding", ![m].deliveredAt = psNow,
                                  ![m].attempts = @ + 1]
            /\ handlers' = [handlers EXCEPT ![m] = @ \cup {psNow}]
            /\ invocations' = [invocations EXCEPT ![m] = @ + 1]
            /\ UNCHANGED deadLetters
  /\ UNCHANGED <<psNow, mode, delays, handled>>
  /\ OnlyPs

\* Whether the delivery started at h is the one the subscription still waits for.
Current(m, h) == msg[m].st = "outstanding" /\ msg[m].deliveredAt = h

\* The message goes back to the backlog, to be redelivered after the backoff.
Requeued(m) ==
  \E d \in Backoff(IF msg[m].attempts <= 1 THEN 0
                    ELSE delays[m][Len(delays[m])]) :
    /\ msg' = [msg EXCEPT ![m].st = "backlog", ![m].availableAt = psNow + d]
    /\ delays' = [delays EXCEPT ![m] = Append(@, d)]

\* The handling started at h succeeds and acknowledges its delivery.
HandlerSucceed(m, h) ==
  /\ h \in handlers[m]
  /\ mode = "free" \/ (mode = "fail2ok" /\ invocations[m] > 2)
  /\ handlers' = [handlers EXCEPT ![m] = @ \ {h}]
  /\ handled' = [handled EXCEPT ![m] = @ + 1]
  /\ msg' = IF Current(m, h) THEN [msg EXCEPT ![m].st = "acked"] ELSE msg
  /\ UNCHANGED <<psNow, mode, invocations, delays, deadLetters>>
  /\ OnlyPs

\* The handling started at h fails and rejects its delivery.
HandlerFail(m, h) ==
  /\ h \in handlers[m]
  /\ \/ mode \in {"free", "alwaysFail"}
     \/ mode = "fail2ok" /\ invocations[m] <= 2
  /\ handlers' = [handlers EXCEPT ![m] = @ \ {h}]
  /\ IF Current(m, h) THEN Requeued(m) ELSE UNCHANGED <<msg, delays>>
  /\ UNCHANGED <<psNow, mode, invocations, handled, deadLetters>>
  /\ OnlyPs

\* timeout_seconds: the request is cut off.
HandlerTimeout(m, h) ==
  /\ h \in handlers[m]
  /\ psNow >= h + TimeoutSeconds
  /\ handlers' = [handlers EXCEPT ![m] = @ \ {h}]
  /\ IF Current(m, h) THEN Requeued(m) ELSE UNCHANGED <<msg, delays>>
  /\ UNCHANGED <<psNow, mode, invocations, handled, deadLetters>>
  /\ OnlyPs

\* ack_deadline_seconds: no acknowledgement came in time; the handling goes on.
AckDeadlineExpire(m) ==
  /\ msg[m].st = "outstanding"
  /\ psNow >= msg[m].deliveredAt + AckDeadlineSeconds
  /\ Requeued(m)
  /\ UNCHANGED <<psNow, mode, handlers, invocations, handled, deadLetters>>
  /\ OnlyPs

\* message_retention_duration: an unacknowledged message this old is deleted.
RetentionExpire(m) ==
  /\ msg[m].st \in {"backlog", "outstanding"}
  /\ psNow >= msg[m].publishedAt + MessageRetentionSeconds
  /\ msg' = [msg EXCEPT ![m].st = "expired"]
  /\ UNCHANGED <<psNow, mode, handlers, invocations, delays, handled, deadLetters>>
  /\ OnlyPs

\* Instants at which the subscription or the service must act.
Deadlines ==
  UNION {
    (IF msg[m].st = "outstanding"
       THEN {msg[m].deliveredAt + AckDeadlineSeconds} ELSE {})
    \cup (IF msg[m].st \in {"backlog", "outstanding"}
            THEN {msg[m].publishedAt + MessageRetentionSeconds} ELSE {})
    \cup {h + TimeoutSeconds : h \in handlers[m]} : m \in Msgs }
\* Instants at which a redelivery becomes possible.
Wakeups ==
  {msg[m].availableAt : m \in {x \in Msgs : msg[x].st = "backlog"}}

\* Time moves to the next instant at which something can happen; no deadline is
\* passed over, and with a scripted collaborator the service has pulled what is
\* available and the collaborator has answered before time moves.
PsTick ==
  /\ \A t \in Deadlines : t > psNow
  /\ mode = "free"
       \/ \A m \in Msgs : /\ handlers[m] = {}
                           /\ ~(msg[m].st = "backlog" /\ msg[m].availableAt <= psNow)
  /\ \E t \in Deadlines \cup Wakeups :
       /\ t > psNow
       /\ t <= MaxClock
       /\ \A u \in Deadlines \cup Wakeups : u > psNow => t <= u
       /\ psNow' = t
  /\ UNCHANGED <<mode, msg, handlers, invocations, delays, handled, deadLetters>>
  /\ OnlyPs

PsNext ==
  \/ \E m \in Msgs : Publish(m)
  \/ \E m \in Msgs : Deliver(m)
  \/ \E m \in Msgs : \E h \in handlers[m] : HandlerSucceed(m, h)
  \/ \E m \in Msgs : \E h \in handlers[m] : HandlerFail(m, h)
  \/ \E m \in Msgs : \E h \in handlers[m] : HandlerTimeout(m, h)
  \/ \E m \in Msgs : AckDeadlineExpire(m)
  \/ \E m \in Msgs : RetentionExpire(m)
  \/ PsTick


(***************************************************************************)
(* PIPELINE COORDINATOR (spec.md, sections 3 to 6)                         *)
(* Lifecycle of a ContentItem, Enhancement Stage, Distribution Router,     *)
(* Platform Connection Manager and restart recovery.                       *)
(***************************************************************************)
NumItems == 1
NumPlatforms == 2
MaxPipeTime == 2
MaxManualRetries == 1
MaxRestarts == 1

\* Section 4.3: automatic enhancement attempts (default 3); section 4.4 step 5:
\* publish attempts per platform (default 5).
EnhanceRetryBudget == 3
MaxPublishAttempts == 5

Items == 1..NumItems
Platforms == 1..NumPlatforms
Pairs == Items \X Platforms
\* RateLimited(retryAfter): the delays a Publisher may name, in ticks.
RetryAfterDelays == {2}

NoAttempt == [st |-> "none", n |-> 0, why |-> "none"]

\* Occurrences of x in sequence q.
Count(q, x) == Cardinality({k \in 1..Len(q) : q[k] = x})
\* Sequence q without its k-th element.
RemoveAt(q, k) == SubSeq(q, 1, k - 1) \o SubSeq(q, k + 1, Len(q))
\* The elements of the finite set S of pairs, as a sequence in a fixed order.
RECURSIVE SeqOf(_)
SeqOf(S) ==
  IF S = {} THEN << >>
  ELSE LET x == CHOOSE y \in S :
                  \A z \in S : y[1] < z[1] \/ (y[1] = z[1] /\ y[2] <= z[2])
       IN <<x>> \o SeqOf(S \ {x})
RECURSIVE SeqOfItems(_)
SeqOfItems(S) ==
  IF S = {} THEN << >>
  ELSE LET x == CHOOSE y \in S : \A z \in S : y <= z
       IN <<x>> \o SeqOfItems(S \ {x})

PipelineInit ==
  /\ itemState = [i \in Items |-> "none"]
  /\ prevState = [i \in Items |-> "none"]
  /\ everEnhanced = [i \in Items |-> FALSE]
  /\ enhanceFailures = [i \in Items |-> 0]
  /\ manualRetries = 0
  /\ enhQueue = << >>
  /\ attempts = [ip \in Pairs |-> NoAttempt]
  /\ dispatchQueue = << >>
  /\ conn \in [Platforms -> {[state |-> "connected", retryAfter |-> 0,
                              posts |-> 0, failures |-> 0],
                             [state |-> "disconnected", retryAfter |-> 0,
                              posts |-> 0, failures |-> 0]}]
  /\ publisherCalls = [p \in Platforms |-> 0]
  /\ events = {}
  /\ pNow = 0
  /\ restarts = 0

\* The items take the lifecycle states f; each remembers the state it left.
MoveAll(f) ==
  /\ itemState' = f
  /\ prevState' = [i \in Items |-> IF f[i] = itemState[i] THEN prevState[i]
                                   ELSE itemState[i]]
  /\ everEnhanced' = [i \in Items |-> everEnhanced[i] \/ f[i] = "enhanced"]
Move(i, s) == MoveAll([itemState EXCEPT ![i] = s])

\* Ingestion creates the item and puts it on the ingestion queue.
Ingest(i) ==
  /\ itemState[i] = "none"
  /\ Move(i, "ingested")
  /\ enhQueue' = Append(enhQueue, i)
  /\ UNCHANGED <<enhanceFailures, manualRetries, attempts, dispatchQueue, conn,
                 publisherCalls, events, pNow, restarts>>
  /\ OnlyPipe

\* 4.3: a worker takes the next item from the queue: transition to enhancing.
StartEnhance ==
  /\ Len(enhQueue) > 0
  /\ Move(Head(enhQueue), "enhancing")
  /\ enhQueue' = Tail(enhQueue)
  /\ UNCHANGED <<enhanceFailures, manualRetries, attempts, dispatchQueue, conn,
                 publisherCalls, events, pNow, restarts>>
  /\ OnlyPipe

\* 4.3: the Enhancer succeeds.
EnhanceOk(i) ==
  /\ itemState[i] = "enhancing"
  /\ Move(i, "enhanced")
  /\ UNCHANGED <<enhanceFailures, manualRetries, enhQueue, attempts, dispatchQueue,
                 conn, publisherCalls, events, pNow, restarts>>
  /\ OnlyPipe

\* 4.3: the Enhancer fails (or times out): enhancement_failed, and an automatic
\* retry while the budget lasts; after that an error event.
EnhanceFail(i) ==
  /\ itemState[i] = "enhancing"
  /\ Move(i, "enhancement_failed")
  /\ enhanceFailures' = [enhanceFailures EXCEPT ![i] = Min(@ + 1, EnhanceRetryBudget)]
  /\ IF enhanceFailures[i] + 1 < EnhanceRetryBudget
       THEN enhQueue' = Append(enhQueue, i) /\ UNCHANGED events
       ELSE events' = events \cup {<<"enhancement_failed", i, 0>>}
            /\ UNCHANGED enhQueue
  /\ UNCHANGED <<manualRetries, attempts, dispatchQueue, conn, publisherCalls, pNow,
                 restarts>>
  /\ OnlyPipe

\* Section 3: the manual retry of a terminally failed enhancement.
ManualRetry(i) ==
  /\ itemState[i] = "enhancement_failed"
  /\ Count(enhQueue, i) = 0
  /\ manualRetries < MaxManualRetries
  /\ manualRetries' = manualRetries + 1
  /\ enhQueue' = Append(enhQueue, i)
  /\ UNCHANGED <<itemState, prevState, everEnhanced, enhanceFailures, attempts,
                 dispatchQueue, conn, publisherCalls, events, pNow, restarts>>
  /\ OnlyPipe

\* 4.4: the router picks the target platforms of an enhanced item and creates
\* one PublishAttempt per target.
Route(i) ==
  /\ itemState[i] = "enhanced"
  /\ \E T \in SUBSET Platforms :
       /\ T # {}
       /\ attempts' = [ip \in Pairs |->
                         IF ip[1] = i /\ ip[2] \in T
                           THEN [st |-> "pending", n |-> 0, why |-> "none"]
                           ELSE attempts[ip]]
       /\ dispatchQueue' = dispatchQueue \o SeqOf({i} \X T)
  /\ Move(i, "dispatching")
  /\ UNCHANGED <<enhanceFailures, manualRetries, enhQueue, conn, publisherCalls,
                 events, pNow, restarts>>
  /\ OnlyPipe

\* checkAvailability with a defect: a rate-limited platform counts as available.
checkAvailabilityIgnoresRateLimit(p) ==
  IF conn[p].state = "disconnected" THEN "disconnected" ELSE "available"

\* checkAvailability with a defect: only the rate limit is looked at, so a
\* disconnected platform counts as available.
checkAvailabilityIgnoresDisconnect(p) ==
  IF conn[p].state = "rate_limited" /\ pNow < conn[p].retryAfter
    THEN "rate_limited" ELSE "available"

\* 4.5: checkAvailability(platform).
checkAvailability(p) ==
  CASE conn[p].state = "disconnected" -> "disconnected"
    [] conn[p].state = "rate_limited" /\ pNow < conn[p].retryAfter -> "rate_limited"
    [] OTHER -> "available"

\* The overall state of item i given the attempts att (4.4, partial success).
ItemAfter(i, att) ==
  LET mine == {p \in Platforms : att[<<i, p>>].st # "none"} IN
  IF \E p \in mine : att[<<i, p>>].st = "published" THEN "published"
  ELSE IF \A p \in mine : att[<<i, p>>].st = "failed" THEN "publish_failed"
  ELSE itemState[i]

\* 4.4 steps 1 to 3: the k-th queued attempt is taken up; dispatch is serialized
\* per platform.
Dispatch(k) ==
  /\ k \in 1..Len(dispatchQueue)
  /\ LET i == dispatchQueue[k][1]
         p == dispatchQueue[k][2]
         avail == checkAvailability(p)
     IN /\ \A j \in Items : attempts[<<j, p>>].st # "inflight"
        /\ CASE avail = "disconnected" ->
                  LET att == [attempts EXCEPT ![<<i, p>>] =
                                [st |-> "failed", n |-> @.n,
                                 why |-> "PlatformUnavailable"]]
                  IN /\ attempts' = att
                     /\ dispatchQueue' = RemoveAt(dispatchQueue, k)
                     /\ events' = events \cup {<<"publish_failed", i, p>>}
                     /\ Move(i, ItemAfter(i, att))
                     /\ UNCHANGED <<conn, publisherCalls>>
             [] avail = "rate_limited" ->
                  /\ dispatchQueue' = Append(RemoveAt(dispatchQueue, k), <<i, p>>)
                  /\ UNCHANGED <<attempts, events, itemState, prevState,
                                 everEnhanced, conn, publisherCalls>>
             [] OTHER ->
                  /\ attempts' = [attempts EXCEPT ![<<i, p>>].st = "inflight"]
                  /\ dispatchQueue' = RemoveAt(dispatchQueue, k)
                  /\ publisherCalls' = [publisherCalls EXCEPT ![p] = @ + 1]
                  /\ conn' = [conn EXCEPT ![p].state = "connected"]
                  /\ UNCHANGED <<events, itemState, prevState, everEnhanced>>
  /\ UNCHANGED <<enhanceFailures, manualRetries, enhQueue, pNow, restarts>>
  /\ OnlyPipe

\* 4.4 step 3: the Publisher succeeds.
PublishOk(i, p) ==
  /\ attempts[<<i, p>>].st = "inflight"
  /\ LET att == [attempts EXCEPT ![<<i, p>>].st = "published"]
     IN attempts' = att /\ Move(i, ItemAfter(i, att))
  /\ conn' = [conn EXCEPT ![p].posts = @ + 1]
  /\ UNCHANGED <<enhanceFailures, manualRetries, enhQueue, dispatchQueue,
                 publisherCalls, events, pNow, restarts>>
  /\ OnlyPipe

\* 4.4 step 4: the Publisher answers RateLimited(d): the platform becomes
\* rate_limited until pNow + d and this attempt is requeued.
PublishRateLimited(i, p) ==
  /\ attempts[<<i, p>>].st = "inflight"
  /\ \E d \in RetryAfterDelays :
       conn' = [conn EXCEPT ![p].state = "rate_limited", ![p].retryAfter = pNow + d]
  /\ attempts' = [attempts EXCEPT ![<<i, p>>].st = "pending"]
  /\ dispatchQueue' = Append(dispatchQueue, <<i, p>>)
  /\ UNCHANGED <<itemState, prevState, everEnhanced, enhanceFailures, manualRetries,
                 enhQueue, publisherCalls, events, pNow, restarts>>
  /\ OnlyPipe

\* 4.4 step 5: any other failure (or a timeout): retry up to the attempt bound,
\* then publish_failed for good and an error event.
PublishFail(i, p) ==
  /\ attempts[<<i, p>>].st = "inflight"
  /\ conn' = [conn EXCEPT ![p].failures = @ + 1]
  /\ IF attempts[<<i, p>>].n + 1 < MaxPublishAttempts
       THEN /\ attempts' = [attempts EXCEPT ![<<i, p>>] =
                              [st |-> "pending", n |-> @.n + 1, why |-> "none"]]
            /\ dispatchQueue' = Append(dispatchQueue, <<i, p>>)
            /\ UNCHANGED <<events, itemState, prevState, everEnhanced>>
       ELSE LET att == [attempts EXCEPT ![<<i, p>>] =
                          [st |-> "failed", n |-> @.n + 1, why |-> "Exhausted"]]
            IN /\ attempts' = att
               /\ events' = events \cup {<<"publish_failed", i, p>>}
               /\ Move(i, ItemAfter(i, att))
               /\ UNCHANGED dispatchQueue
  /\ UNCHANGED <<enhanceFailures, manualRetries, enhQueue, publisherCalls, pNow,
                 restarts>>
  /\ OnlyPipe

\* 4.5: disconnecting a platform (administrative, idempotent).
Disconnect(p) ==
  /\ conn' = [conn EXCEPT ![p].state = "disconnected"]
  /\ UNCHANGED <<itemState, prevState, everEnhanced, enhanceFailures, manualRetries,
                 enhQueue, attempts, dispatchQueue, publisherCalls, events, pNow,
                 restarts>>
  /\ OnlyPipe

\* 4.5: connecting a platform (administrative, idempotent); a retry-after
\* deadline that has not elapsed still holds.
Connect(p) ==
  /\ conn' = [conn EXCEPT ![p].state =
                IF @ # "disconnected" THEN @
                ELSE IF pNow < conn[p].retryAfter THEN "rate_limited"
                ELSE "connected"]
  /\ UNCHANGED <<itemState, prevState, everEnhanced, enhanceFailures, manualRetries,
                 enhQueue, attempts, dispatchQueue, publisherCalls, events, pNow,
                 restarts>>
  /\ OnlyPipe

PipeTick ==
  /\ pNow < MaxPipeTime
  /\ pNow' = pNow + 1
  /\ UNCHANGED <<itemState, prevState, everEnhanced, enhanceFailures, manualRetries,
                 enhQueue, attempts, dispatchQueue, conn, publisherCalls, events,
                 restarts>>
  /\ OnlyPipe

\* Recovery with a defect: an interrupted item goes back to the state before
\* the interrupted stage.
RecoveredStateRewinds(s) ==
  CASE s = "enhancing" -> "enhancement_failed"
    [] s = "dispatching" -> "enhanced"
    [] OTHER -> s

\* Section 6: the lifecycle state recovery gives an item persisted in state s.
RecoveredState(s) ==
  IF s = "enhancing" THEN "enhancement_failed" ELSE s

\* Recovery with a defect: the attempts that were in flight are forgotten.
InterruptedAttemptsNone == {}

\* Section 6: the publish attempts a restart finds in flight.
InterruptedAttempts == {ip \in Pairs : attempts[ip].st = "inflight"}

\* Section 6: the coordinator restarts.  Nothing is resumed: an item left in
\* enhancing and every attempt left in flight count as failed and are requeued.
Restart ==
  /\ restarts < MaxRestarts
  /\ restarts' = restarts + 1
  /\ MoveAll([i \in Items |-> RecoveredState(itemState[i])])
  /\ enhQueue' = enhQueue \o SeqOfItems({i \in Items : itemState[i] = "enhancing"})
  /\ attempts' = [ip \in Pairs |->
                    IF attempts[ip].st = "inflight"
                      THEN [attempts[ip] EXCEPT !.st = "pending"]
                      ELSE attempts[ip]]
  /\ dispatchQueue' = dispatchQueue \o SeqOf(InterruptedAttempts)
  /\ UNCHANGED <<enhanceFailures, manualRetries, conn, publisherCalls, events, pNow>>
  /\ OnlyPipe

PipeNext ==
  \/ \E i \in Items : Ingest(i)
  \/ StartEnhance
  \/ \E i \in Items : EnhanceOk(i)
  \/ \E i \in Items : EnhanceFail(i)
  \/ \E i \in Items : ManualRetry(i)
  \/ \E i \in Items : Route(i)
  \/ \E k \in 1..Len(dispatchQueue) : Dispatch(k)
  \/ \E i \in Items, p \in Platforms : PublishOk(i, p)
  \/ \E i \in Items, p \in Platforms : PublishRateLimited(i, p)
  \/ \E i \in Items, p \in Platforms : PublishFail(i, p)
  \/ \E p \in Platforms : Disconnect(p)
  \/ \E p \in Platforms : Connect(p)
  \/ PipeTick
  \/ Restart

(***************************************************************************)
(* QUEUE CONSUMERS (spec.md, sections 4.2 and 5)                           *)
(* The workers that pull from the ingestion queue, and the global shutdown *)
(* signal.  The forced cancellation after the grace period is not part of  *)
(* the model: a call to a collaborator ends by itself, at its timeout at   *)
(* the latest.                                                             *)
(***************************************************************************)
NumConsumers == 2
QueueCapacity == 2
MaxProduced == 4

Consumers == 1..NumConsumers

QueueInit ==
  /\ workQueue = << >>
  /\ consumer = [c \in Consumers |-> "blocked"]
  /\ dequeueReport = [c \in Consumers |-> "none"]
  /\ shuttingDown = FALSE
  /\ produced = 0
  /\ consumed = 0

\* 4.2 enqueue(item): the producer is held back while the queue is full.
enqueue ==
  /\ produced < MaxProduced
  /\ Len(workQueue) < QueueCapacity
  /\ produced' = produced + 1
  /\ workQueue' = Append(workQueue, produced + 1)
  /\ UNCHANGED <<consumer, dequeueReport, shuttingDown, consumed>>
  /\ OnlyQueue

\* 4.2 dequeue(), an item is available: the blocked consumer takes the oldest.
dequeue(c) ==
  /\ consumer[c] = "blocked"
  /\ ~shuttingDown
  /\ Len(workQueue) > 0
  /\ consumer' = [consumer EXCEPT ![c] = "working"]
  /\ dequeueReport' = [dequeueReport EXCEPT ![c] = "item"]
  /\ workQueue' = Tail(workQueue)
  /\ UNCHANGED <<shuttingDown, produced, consumed>>
  /\ OnlyQueue

\* dequeue() with a defect: a consumer that waits is woken by an item only, so
\* the shutdown reaches it only if the queue still holds one.
dequeueShuttingDownNeedsItem(c) ==
  /\ consumer[c] = "blocked"
  /\ shuttingDown
  /\ Len(workQueue) > 0
  /\ consumer' = [consumer EXCEPT ![c] = "terminated"]
  /\ dequeueReport' = [dequeueReport EXCEPT ![c] = "ShuttingDown"]
  /\ UNCHANGED <<workQueue, shuttingDown, produced, consumed>>
  /\ OnlyQueue

\* 4.2 dequeue(), the coordinator is shutting down: it reports ShuttingDown and
\* the consumer ends.
dequeueShuttingDown(c) ==
  /\ consumer[c] = "blocked"
  /\ shuttingDown
  /\ consumer' = [consumer EXCEPT ![c] = "terminated"]
  /\ dequeueReport' = [dequeueReport EXCEPT ![c] = "ShuttingDown"]
  /\ UNCHANGED <<workQueue, shuttingDown, produced, consumed>>
  /\ OnlyQueue

\* Section 5: the consumer finishes its current item and calls dequeue() again.
finishItem(c) ==
  /\ consumer[c] = "working"
  /\ consumer' = [consumer EXCEPT ![c] = "blocked"]
  /\ consumed' = consumed + 1
  /\ UNCHANGED <<workQueue, dequeueReport, shuttingDown, produced>>
  /\ OnlyQueue

\* Section 5: the global shutdown signal.
shutdown ==
  /\ ~shuttingDown
  /\ shuttingDown' = TRUE
  /\ UNCHANGED <<workQueue, consumer, dequeueReport, produced, consumed>>
  /\ OnlyQueue

QueueNext ==
  \/ enqueue
  \/ \E c \in Consumers : dequeue(c)
  \/ \E c \in Consumers : dequeueShuttingDown(c)
  \/ \E c \in Consumers : finishItem(c)
  \/ shutdown

\* A consumer that can finish its item, or whose dequeue() can return, does.
QueueFairness ==
  \A c \in Consumers :
    /\ WF_vars(dequeueShuttingDown(c))
    /\ WF_vars(finishItem(c))

(***************************************************************************)
(* PAGE (src/app.js): modals and notifications                             *)
(***************************************************************************)
PageInit ==
  /\ activeModals = {}
  /\ bodyOverflow = ""
  /\ notifications = << >>
  /\ domErrors = 0

\* The two modals of the page, and the ids openModal and closeModal can be
\* called with: theirs and one that no element carries.
ModalIds == {"addSourceModal", "addPlatformModal"}
ModalIdInputs == ModalIds \cup {"nosuch"}

\* function openModal(modalId)
openModal(modalId) ==
  /\ IF modalId \in ModalIds
       THEN /\ activeModals' = activeModals \cup {modalId}
            /\ bodyOverflow' = "hidden"
       ELSE UNCHANGED <<activeModals, bodyOverflow>>
  /\ UNCHANGED <<notifications, domErrors>>
  /\ OnlyPage

\* function closeModal(modalId)
closeModal(modalId) ==
  /\ IF modalId \in ModalIds
       THEN /\ activeModals' = activeModals \ {modalId}
            /\ bodyOverflow' = ""
       ELSE UNCHANGED <<activeModals, bodyOverflow>>
  /\ UNCHANGED <<notifications, domErrors>>
  /\ OnlyPage

\* The click listener of the document: a click on the backdrop of a modal that
\* is displayed closes that modal.
clickOutside(modalId) ==
  /\ modalId \in activeModals
  /\ closeModal(modalId)

MaxNotifications == 2

\* function showNotification(message, type): the element is appended to the
\* body and its timers are set.
showNotification(message, type) ==
  /\ Len(notifications) < MaxNotifications
  /\ notifications' = Append(notifications,
                             [message |-> message, type |-> type,
                              phase |-> "created", attached |-> TRUE,
                              removals |-> 0])
  /\ UNCHANGED <<activeModals, bodyOverflow, domErrors>>
  /\ OnlyPage

\* function refreshScrapingLogs()
refreshScrapingLogs == showNotification("Logs refreshed", "info")

\* function startScraping()
startScraping == showNotification("Scraping job started", "success")

\* The 100 ms timer of notification n: it slides in.
showTimer(n) ==
  /\ n \in DOMAIN notifications
  /\ notifications[n].phase = "created"
  /\ notifications' = [notifications EXCEPT ![n].phase = "shown"]
  /\ UNCHANGED <<activeModals, bodyOverflow, domErrors>>
  /\ OnlyPage

\* The 3000 ms timer of notification n: it slides out and the removal is set
\* for 300 ms later.
hideTimer(n) ==
  /\ n \in DOMAIN notifications
  /\ notifications[n].phase = "shown"
  /\ notifications' = [notifications EXCEPT ![n].phase = "hiding"]
  /\ UNCHANGED <<activeModals, bodyOverflow, domErrors>>
  /\ OnlyPage

\* The removal timer with a defect: it is an interval, so it fires again.
removeTimerRepeats(n) ==
  /\ n \in DOMAIN notifications
  /\ notifications[n].phase = "hiding"
  /\ domErrors < MaxNotifications
  /\ IF notifications[n].attached
       THEN /\ notifications' = [notifications EXCEPT ![n].attached = FALSE,
                                                      ![n].removals = @ + 1]
            /\ UNCHANGED domErrors
       ELSE /\ domErrors' = domErrors + 1
            /\ UNCHANGED notifications
  /\ UNCHANGED <<activeModals, bodyOverflow>>
  /\ OnlyPage

\* The 300 ms timer of notification n: document.body.removeChild(notification),
\* which throws if the node is not a child of the body.
removeTimer(n) ==
  /\ n \in DOMAIN notifications
  /\ notifications[n].phase = "hiding"
  /\ IF notifications[n].attached
       THEN /\ notifications' = [notifications EXCEPT ![n].phase = "removed",
                                                      ![n].attached = FALSE,
                                                      ![n].removals = @ + 1]
            /\ UNCHANGED domErrors
       ELSE /\ notifications' = [notifications EXCEPT ![n].phase = "removed"]
            /\ domErrors' = domErrors + 1
  /\ UNCHANGED <<activeModals, bodyOverflow>>
  /\ OnlyPage

PageNext ==
  \/ \E id \in ModalIdInputs : openModal(id)
  \/ \E id \in ModalIdInputs : closeModal(id)
  \/ \E id \in ModalIds : clickOutside(id)
  \/ refreshScrapingLogs
  \/ startScraping
  \/ \E t \in SearchTerms, f \in StatusFilters : filterContent(t, f)
  \/ \E n \in 1..MaxNotifications : showTimer(n)
  \/ \E n \in 1..MaxNotifications : hideTimer(n)
  \/ \E n \in 1..MaxNotifications : removeTimer(n)

\* A timer that has been set fires.
PageFairness ==
  \A n \in 1..MaxNotifications :
    /\ WF_vars(showTimer(n))
    /\ WF_vars(hideTimer(n))
    /\ WF_vars(removeTimer(n))

(***************************************************************************)
(* SPECIFICATIONS                                                          *)
(***************************************************************************)
\* The coordinator before any item or platform exists.
PipeRest ==
  /\ itemState = << >>
  /\ prevState = << >>
  /\ everEnhanced = << >>
  /\ enhanceFailures = << >>
  /\ manualRetries = 0
  /\ enhQueue = << >>
  /\ attempts = << >>
  /\ dispatchQueue = << >>
  /\ conn = << >>
  /\ publisherCalls = << >>
  /\ events = {}
  /\ pNow = 0
  /\ restarts = 0

\* The layers that the specification at hand does not move.
Rest == QueueInit /\ PageInit

\* The dashboard, with the other layers at rest.
Init == DashInit /\ PsInitIn({"free"}) /\ PipeRest /\ Rest

Next == DashNext
Spec == Init /\ [][Next]_vars

\* The subscription and its service, under each behaviour of the collaborator.
InitPubSub == DashInit /\ PsInitIn(Modes) /\ PipeRest /\ Rest
NextPubSub == PsNext
SpecPubSub == InitPubSub /\ [][NextPubSub]_vars

\* The coordinator, with the other layers at rest.
InitPipeline == DashInit /\ PsInitIn({"free"}) /\ PipelineInit /\ Rest
NextPipeline == PipeNext
SpecPipeline == InitPipeline /\ [][NextPipeline]_vars

\* The queue consumers, with the other layers at rest.
InitQueue == DashInit /\ PsInitIn({"free"}) /\ PipeRest /\ Rest
NextQueue == QueueNext
SpecQueue == InitQueue /\ [][NextQueue]_vars /\ QueueFairness

\* The page around the data, with the other layers at rest.
InitPage == DashInit /\ PsInitIn({"free"}) /\ PipeRest /\ Rest
NextPage == PageNext
SpecPage == InitPage /\ [][NextPage]_vars /\ PageFairness

(***************************************************************************)
(* CLAIMS                                                                  *)
(***************************************************************************)

\* C2: a paused Source never produces new ingestion entries.  On the dashboard
\* the only record of an ingestion is the activity "New article scraped from
\* <source>": whenever updateRecentActivity adds one, the source it names is
\* active at that moment.
C2_PausedSourceProducesNothing ==
  [][ \A id \in SourceIds :
        ( /\ refreshes' = refreshes + 1
          /\ ScrapedSourceOf(Head(recentActivity').action) = id )
        => contentSources[id].status = "active" ]_vars

\* C4: an item is in state published as soon as one of its platforms has been
\* published to (the dashboard lists those platforms in item.platforms and shows
\* "Not Published" when there is none), and it is publish_failed only if no
\* platform succeeded.
C4_PublishedOncePlatformSucceeded ==
  \A id \in LibraryIds :
    /\ Len(contentLibrary[id].platforms) > 0 => contentLibrary[id].status = "published"
    /\ contentLibrary[id].status = "publish_failed" => Len(contentLibrary[id].platforms) = 0

\* C7: the monetization snapshot is a projection of mockData.monetization, which
\* no operation of the dashboard changes: every snapshot rendered so far shows
\* exactly the numbers a recomputation from the present state gives.
C7_SnapshotIsProjection ==
  /\ monetization = InitMonetization
  /\ \A i \in 1..Len(chartRenders) :
       /\ chartRenders[i].data = RevenueBreakdown(monetization)
       /\ chartRenders[i].tiers = SubscriptionStats(monetization)
\* The snapshot was computed twice, and the activity feed and a source changed
\* in the meantime.
C7_Witness ==
  /\ Len(chartRenders) = 2
  /\ refreshes > 0
  /\ contentSources # InitContentSources

C8_OneInFlightPerMessage ==
  \A m \in Msgs : Cardinality(handlers[m]) <= 1

\* C9: with a collaborator that always fails, a message is handed to the
\* service at most 5 times in total.
C9_AtMostFiveAttempts ==
  \A m \in Msgs : mode = "alwaysFail" => invocations[m] <= 5

C6_RestartRequeuesOnce ==
  /\ [](\A i \in DOMAIN itemState :
          /\ Count(enhQueue, i) <= 1
          /\ itemState[i] = "ingested" => Count(enhQueue, i) = 1
          /\ itemState[i] \notin {"ingested", "enhancement_failed"}
               => Count(enhQueue, i) = 0)
  /\ [](\A ip \in DOMAIN attempts :
          Count(dispatchQueue, ip) = IF attempts[ip].st = "pending" THEN 1 ELSE 0)
  /\ [][ restarts' # restarts =>
           /\ \A i \in DOMAIN itemState :
                /\ itemState'[i] # "enhancing"
                /\ itemState[i] = "enhancing" =>
                     /\ itemState'[i] = "enhancement_failed"
                     /\ Count(enhQueue', i) = 1
                /\ itemState[i] # "enhancing" =>
                     /\ itemState'[i] = itemState[i]
                     /\ Count(enhQueue', i) = Count(enhQueue, i)
           /\ \A ip \in DOMAIN attempts :
                /\ attempts'[ip].st # "inflight"
                /\ attempts[ip].st = "inflight" =>
                     /\ attempts'[ip].st = "pending"
                     /\ attempts'[ip].n = attempts[ip].n
                     /\ Count(dispatchQueue', ip) = 1
                /\ attempts[ip].st # "inflight" => attempts'[ip] = attempts[ip]
           /\ publisherCalls' = publisherCalls ]_vars

C6_Witness ==
  /\ restarts = 1
  /\ \E i \in DOMAIN itemState, p \in DOMAIN conn :
       /\ itemState[i] = "dispatching"
       /\ attempts[<<i, p>>] = [st |-> "pending", n |-> 0, why |-> "none"]
       /\ Count(dispatchQueue, <<i, p>>) = 1
       /\ publisherCalls[p] = 1
       /\ conn[p].retryAfter = 0

\* C10: no Publisher call is made to a disconnected platform; an attempt taken
\* up while its platform is disconnected becomes failed with
\* PlatformUnavailable in that step, off the queue, with the platform's
\* counters and the attempt's count unchanged; a failed attempt never changes
\* again.
C10_DisconnectedFailsImmediately ==
  [][ \A ip \in DOMAIN attempts :
        LET p == ip[2] IN
        /\ publisherCalls'[p] > publisherCalls[p] => conn[p].state # "disconnected"
        /\ ( /\ attempts[ip].st = "pending"
             /\ conn[p].state = "disconnected"
             /\ attempts'[ip] # attempts[ip] ) =>
             /\ attempts'[ip] = [st |-> "failed", n |-> attempts[ip].n,
                                 why |-> "PlatformUnavailable"]
             /\ Count(dispatchQueue', ip) = 0
             /\ conn'[p] = conn[p]
             /\ publisherCalls' = publisherCalls
        /\ attempts[ip].st = "failed" =>
             /\ attempts'[ip] = attempts[ip]
             /\ Count(dispatchQueue', ip) = 0 ]_vars

C10_Witness ==
  \E i \in DOMAIN itemState, p \in DOMAIN conn :
    /\ attempts[<<i, p>>] = [st |-> "failed", n |-> 0,
                             why |-> "PlatformUnavailable"]
    /\ conn[p].state = "disconnected"
    /\ conn[p].posts = 0
    /\ publisherCalls[p] = 0
    /\ <<"publish_failed", i, p>> \in events
    /\ itemState[i] = "publish_failed"

\* C11: no message accepted by the subscription disappears unhandled: a
\* published message is still held, being handled, or acknowledged.
C11_NoMessageLost ==
  \A m \in Msgs : msg[m].st # "expired"

\* C12: an event recorded in the activity log stays in it unchanged: every
\* entry of the log is an entry of the log after any step (the code keeps no
\* counter of dropped events that could account for a removal).
C12_LogAppendOnly ==
  [][ \A k \in 1..Len(recentActivity) :
        \E j \in 1..Len(recentActivity') :
          recentActivity'[j] = recentActivity[k] ]_vars

\* C13: a call of toggleSource with an id no source carries produces NotFound
\* and leaves every source as it was.
C13_UnknownSourceNotFound ==
  [][ \A id \in SourceIdInputs \ DOMAIN contentSources :
        (lastToggle' # lastToggle /\ lastToggle'.id = id) =>
          /\ lastToggle'.outcome = "NotFound"
          /\ contentSources' = contentSources ]_vars

\* C14: the sources are always the ones loaded, each active or paused; no step
\* removes a source, lowers its article count or changes its name or type,
\* and a source changes only in a call of toggleSource with its id, which
\* changes its status and nothing else.
C14_SourcesChangeOnlyByToggle ==
  /\ [](/\ DOMAIN contentSources = SourceIds
        /\ \A id \in SourceIds : contentSources[id].status \in {"active", "paused"})
  /\ [][ \A id \in SourceIds :
           /\ id \in DOMAIN contentSources'
           /\ contentSources'[id].articles >= contentSources[id].articles
           /\ contentSources'[id].name = contentSources[id].name
           /\ contentSources'[id].type = contentSources[id].type
           /\ contentSources'[id] # contentSources[id] =>
                /\ lastToggle' = [id |-> id, outcome |-> "undefined"]
                /\ contentSources'[id].articles = contentSources[id].articles
                /\ \A other \in SourceIds \ {id} :
                     contentSources'[other] = contentSources[other]
                /\ UNCHANGED <<recentActivity, refreshes, chartRenders,
                               currentSection, clock>> ]_vars

C14_Witness ==
  /\ contentSources[3].status = "active"
  /\ contentSources[1].status = "paused"
  /\ contentSources[1].articles = 42
  /\ lastToggle.id = 4
  /\ refreshes > 0
  /\ Len(chartRenders) > 0

\* C15: the status of every item of the content library is one of ingested,
\* enhancing, enhanced, enhancement_failed, dispatching, published,
\* publish_failed.
C15_StatusIsLifecycleState ==
  \A id \in DOMAIN contentLibrary :
    contentLibrary[id].status \in
      {"ingested", "enhancing", "enhanced", "enhancement_failed", "dispatching",
       "published", "publish_failed"}

\* C16: the activity feed read from the log is ordered by timestamp: the times
\* of its entries, in the order shown, never rise and fall (newest first
\* throughout, or oldest first throughout).
C16_FeedOrderedByTimestamp ==
  LET feed == loadRecentActivity IN
  \/ \A k \in 1..(Len(feed) - 1) : feed[k].time >= feed[k + 1].time
  \/ \A k \in 1..(Len(feed) - 1) : feed[k].time <= feed[k + 1].time

\* C17: the sources table lists the sources in the order in which they were
\* loaded, whatever has been toggled.
C17_SourcesListedInRegistrationOrder ==
  /\ Len(loadContentSources) = Len(InitContentSources)
  /\ \A k \in 1..Len(loadContentSources) :
       loadContentSources[k].name = InitContentSources[k].name

C17_Witness ==
  /\ loadContentSources[1].status = "paused"
  /\ loadContentSources[2].status = "paused"
  /\ loadContentSources[3].status = "active"
  /\ lastToggle.id = 2

\* C18: no operation of the dashboard (toggling a source, navigation, filtering,
\* the refresh of the activity feed, rendering the monetization chart) changes
\* the status or the post count of any platform.
C18_PlatformsUntouchedByDashboard ==
  [][ \A p \in PlatformNames :
        /\ p \in DOMAIN distributionPlatforms'
        /\ distributionPlatforms'[p].status = distributionPlatforms[p].status
        /\ distributionPlatforms'[p].posts = distributionPlatforms[p].posts ]_vars

C18_Witness ==
  /\ lastToggle.id = 1
  /\ currentSection = "sources"
  /\ visibleItems = {2}
  /\ refreshes > 0
  /\ recentActivity[1].action = "Published to LinkedIn successfully"
  /\ Len(chartRenders) > 0
  /\ distributionPlatforms["LinkedIn"].posts = 89

\* C19: a refresh of the dashboard view is read-only: it leaves the sources,
\* the content items, the platforms and the activity log as they were.
C19_RefreshIsReadOnly ==
  [][ refreshes' # refreshes =>
        /\ contentSources' = contentSources
        /\ contentLibrary' = contentLibrary
        /\ distributionPlatforms' = distributionPlatforms
        /\ recentActivity' = recentActivity ]_vars

\* C20: a message that has used up its delivery attempts and was dead-lettered
\* is not handed to the service by this subscription again.
C20_DeadLetteredNotRedelivered ==
  [][ \A m \in Msgs :
        deadLetters[m] > 0 => invocations'[m] = invocations[m] ]_vars

\* C21: the delays before the redeliveries of a message never decrease from
\* one redelivery to the next, and each lies between 24 s (30 s less 20%) and
\* 2160 s (30 min plus 20%).
C21_BackoffWithinSpecifiedRange ==
  \A m \in Msgs :
    /\ \A k \in 1..Len(delays[m]) : delays[m][k] >= 24 /\ delays[m][k] <= 2160
    /\ \A k \in 1..(Len(delays[m]) - 1) : delays[m][k] <= delays[m][k + 1]

C23_ToggleTwiceRestores ==
  /\ [](\A id \in DOMAIN contentSources :
          LET once == Toggled(contentSources, id)
              twice == Toggled(once, id)
          IN /\ once[id].status # contentSources[id].status
             /\ once[id].status \in {"active", "paused"}
             /\ \A other \in DOMAIN contentSources \ {id} :
                  once[other] = contentSources[other]
             /\ twice = contentSources)
  /\ [][ contentSources' # contentSources =>
           contentSources' = Toggled(contentSources, lastToggle'.id) ]_vars

C23_Witness ==
  /\ contentSources = InitContentSources
  /\ lastToggle = [id |-> 3, outcome |-> "undefined"]
  /\ refreshes > 0

\* C24: the activity log never holds more than 5 entries; a call of
\* updateRecentActivity puts its new entry, stamped with the current time, at
\* the head, and when 5 entries were present it drops exactly the last one
\* and keeps the other four in their order behind the new one.
C24_LogKeepsFiveNewestFirst ==
  /\ [](Len(recentActivity) <= 5)
  /\ [][ refreshes' # refreshes =>
           /\ recentActivity'[1].time = clock
           /\ \E a \in 1..Len(activities) : recentActivity'[1].action = activities[a]
           /\ Len(recentActivity) = 5 =>
                /\ Len(recentActivity') = 5
                /\ \A k \in 1..4 : recentActivity'[k + 1] = recentActivity[k]
           /\ Len(recentActivity) < 5 =>
                recentActivity' = <<recentActivity'[1]>> \o recentActivity ]_vars

C24_Witness ==
  /\ refreshes > 0
  /\ clockAdvances > 0
  /\ Len(recentActivity) = 5
  /\ recentActivity[1].time = clock
  /\ recentActivity[2] = InitRecentActivity[1]
  /\ recentActivity[5] = InitRecentActivity[4]

\* C25: the page's scroll lock is on exactly when some modal is active.
C25_ScrollLockIffModalActive ==
  bodyOverflow = "hidden" <=> activeModals # {}

\* C26: exactly one content section is active and it is the one currentSection
\* names, and exactly one nav link is active and it is the link of that
\* section.
C26_OneActiveSectionAndLink ==
  /\ activeSections = {currentSection}
  /\ activeLinks = {currentSection}

\* C27: the three amounts handed to the revenue chart are each at least 0 and
\* add up to totalRevenue.
C27_BreakdownNonNegativeAndComplete ==
  \A i \in 1..Len(chartRenders) :
    LET data == chartRenders[i].data IN
    /\ \A k \in 1..3 : data[k] >= 0
    /\ data[1] + data[2] + data[3] = chartRenders[i].basis.totalRevenue

\* C28: the activity log changes only in a timer tick that fires while
\* currentSection is "dashboard"; that tick leaves the section as it is, and
\* no other step of the page writes the log.
C28_RefreshOnlyOnDashboard ==
  [][ (recentActivity' # recentActivity \/ refreshes' # refreshes) =>
        /\ currentSection = "dashboard"
        /\ currentSection' = "dashboard"
        /\ refreshes' = refreshes + 1
        /\ UNCHANGED <<contentSources, contentLibrary, distributionPlatforms,
                       monetization, chartRenders, lastToggle, visibleItems,
                       activeSections, activeLinks>> ]_vars

C28_Witness ==
  /\ refreshes = 1
  /\ recentActivity # InitRecentActivity
  /\ currentSection = "monetization"
  /\ activeSections = {"monetization"}

\* C29: a notification is taken off the document at most once, it is attached
\* until its removal timer has fired and detached afterwards, no removeChild
\* is ever called on a notification that is not attached, and every
\* notification shown is removed in the end.
C29_NotificationRemovedOnce ==
  /\ [](/\ domErrors = 0
        /\ \A n \in DOMAIN notifications :
             /\ notifications[n].removals <= 1
             /\ notifications[n].attached <=> notifications[n].phase # "removed"
             /\ notifications[n].removals = 1 <=> ~notifications[n].attached)
  /\ \A n \in 1..MaxNotifications :
       (n \in DOMAIN notifications) ~>
         (/\ n \in DOMAIN notifications
          /\ notifications[n].phase = "removed"
          /\ notifications[n].removals = 1)

C29_Witness ==
  /\ Len(notifications) = 2
  /\ notifications[1].phase = "hiding"
  /\ notifications[1].attached
  /\ notifications[2].phase = "removed"
  /\ notifications[2].removals = 1
  /\ ~notifications[2].attached

\* C30: after filterContent an item is displayed if and only if its title or
\* its summary, lower-cased, contains the lower-cased search term and either
\* no status is selected or the item's status text contains the selected
\* status; with an empty search term and no status selected every item is
\* displayed.
C30_DisplayedIffMatches ==
  /\ visibleItems =
       {id \in LibraryIds :
          /\ \/ includes(toLowerCase(contentLibrary[id].title),
                         toLowerCase(contentSearch))
             \/ includes(toLowerCase(contentLibrary[id].summary),
                         toLowerCase(contentSearch))
          /\ \/ statusFilter = ""
             \/ includes(Chars(contentLibrary[id].status), Chars(statusFilter))}
  /\ (contentSearch = << >> /\ statusFilter = "") => visibleItems = LibraryIds

C30_Witness ==
  /\ contentSearch = <<"F", "D", "A">>
  /\ statusFilter = "enhanced"
  /\ visibleItems = {1}

\* C30 as worded: the title or the summary as written contains the
\* lower-cased search term.
C30_AsWorded ==
  visibleItems =
    {id \in LibraryIds :
       /\ \/ includes(contentLibrary[id].title, toLowerCase(contentSearch))
          \/ includes(contentLibrary[id].summary, toLowerCase(contentSearch))
       /\ \/ statusFilter = ""
          \/ includes(Chars(contentLibrary[id].status), Chars(statusFilter))}

====
